---- MODULE Spec2Model ----
(***************************************************************************)
(* A model of two parts of SPIR-T:                                         *)
(*   - passes/merge.rs : merge(mergee, merged), with make_compatible, the  *)
(*     CopyCollector visitor and the DeclRewrite transformer;              *)
(*   - spv/lower.rs    : Module::lower_from_spv_module_parser.             *)
(* Each has its own specification (SpecMerge, SpecDialect, SpecLower) over *)
(* the shared variables; the variables of the other part stay idle.        *)
(***************************************************************************)
EXTENDS Integers, Sequences, FiniteSets, TLC

VARIABLES
    \* ---- merge ----
    mergee,            \* the destination module (&mut Module)
    merged,            \* the source module (Module, by value)
    cx,                \* the shared Context: its entity allocators
    cpycoll,           \* the CopyCollector's seen sets and rewrite maps
    decl_rewrite,      \* the DeclRewrite's caches and queues
    resolved_dialect,  \* make_compatible's Ok value
    export_idx,        \* position of the loop over merged.exports (1-based)
    pc,                \* position inside merge
    result,            \* what merge returned
    pre,               \* history: mergee as it was when merge was entered
    origin,            \* history: for every declaration defined by the collector, the
                       \* declaration of merged it was cloned from
    rewritten,         \* history: the declarations rewritten in place by the drain loop
    \* ---- lower ----
    header,            \* parser.header: [version, id_bound, reserved_inst_schema]
    consumed,          \* history: the instructions parser.next() has yielded so far
    dialect,           \* the spv::Dialect under construction
    seq,               \* Option<Seq>: 0 is None, 1..8 the categories
    has_memory_model,
    pending_attrs,     \* FxHashMap<spv::Id, BTreeSet<Attr>>
    id_defs,           \* FxHashMap<spv::Id, IdDef>
    top_level,         \* Vec<TopLevel>
    lpc,               \* position inside lower_from_spv_module_parser
    lresult            \* what lowering returned

merge_vars == <<mergee, merged, cx, cpycoll, decl_rewrite, resolved_dialect,
                export_idx, pc, result, pre, origin, rewritten>>
lower_vars == <<header, consumed, dialect, seq, has_memory_model, pending_attrs,
                id_defs, top_level, lpc, lresult>>
vars == <<merge_vars, lower_vars>>

(***************************************************************************)
(* Bounds of the model.                                                    *)
(***************************************************************************)
NumSrcFuncs == 1        \* functions of merged (beside its one global variable)
MaxExports == 2         \* entries of merged.exports
NumCaps == 3            \* distinct capabilities
NumExts == 1            \* distinct extensions
MaxInsts == 3           \* instructions of a lowered stream
NumIds == 2             \* distinct SPIR-V IDs of a lowered stream

(***************************************************************************)
(* Small helpers for finite maps (functions with a growing domain).        *)
(***************************************************************************)
EmptyMap == <<>>
Put(f, k, v) == [x \in (DOMAIN f) \cup {k} |-> IF x = k THEN v ELSE f[x]]
SeqsUpTo(S, n) == UNION {[1..k -> S] : k \in 0..n}

(***************************************************************************)
(* Dialects (spv::Dialect, as merge.rs and lower.rs use it).               *)
(***************************************************************************)
Caps == 1..NumCaps
Exts == 1..NumExts
DialectsOf(magic, majors, minors) ==
    [version_major : majors, version_minor : minors,
     original_generator_magic : {magic}, original_id_bound : {8},
     capabilities : SUBSET Caps, extensions : SUBSET Exts,
     addressing_model : {0, 1}, memory_model : {0, 1}]

Ok(v) == [tag |-> "Ok", v |-> v]
Err(e) == [tag |-> "Err", err |-> e]
NoResult == [tag |-> "None"]

VersionMissmatch(a, b) ==
    [kind |-> "VersionMissmatch",
     mergee |-> <<a.version_major, a.version_minor>>,
     merged |-> <<b.version_major, b.version_minor>>]

\* faulty variant: the version test looks at the major component only
make_compatible_major_only(a, b) ==
    IF a.memory_model # b.memory_model THEN Err([kind |-> "MemoryModelMissmatch"])
    ELSE IF a.addressing_model # b.addressing_model
         THEN Err([kind |-> "AddressingModelMissmatch"])
    ELSE IF a.version_major # b.version_major THEN Err(VersionMissmatch(a, b))
    ELSE Ok([a EXCEPT !.capabilities = @ \cup b.capabilities,
                      !.extensions = @ \cup b.extensions])

\* faulty variant: the extensions of the second dialect are not merged in
make_compatible_no_extensions(a, b) ==
    IF a.memory_model # b.memory_model THEN Err([kind |-> "MemoryModelMissmatch"])
    ELSE IF a.addressing_model # b.addressing_model
         THEN Err([kind |-> "AddressingModelMissmatch"])
    ELSE IF a.version_major # b.version_major \/ a.version_minor # b.version_minor
         THEN Err(VersionMissmatch(a, b))
    ELSE Ok([a EXCEPT !.capabilities = @ \cup b.capabilities])

\* faulty variant: the addressing model is compared before the memory model
make_compatible_addressing_first(a, b) ==
    IF a.addressing_model # b.addressing_model
    THEN Err([kind |-> "AddressingModelMissmatch"])
    ELSE IF a.memory_model # b.memory_model THEN Err([kind |-> "MemoryModelMissmatch"])
    ELSE IF a.version_major # b.version_major \/ a.version_minor # b.version_minor
         THEN Err(VersionMissmatch(a, b))
    ELSE Ok([a EXCEPT !.capabilities = @ \cup b.capabilities,
                      !.extensions = @ \cup b.extensions])

make_compatible(a, b) ==
    IF a.memory_model # b.memory_model THEN Err([kind |-> "MemoryModelMissmatch"])
    ELSE IF a.addressing_model # b.addressing_model
         THEN Err([kind |-> "AddressingModelMissmatch"])
    ELSE IF a.version_major # b.version_major \/ a.version_minor # b.version_minor
         THEN Err(VersionMissmatch(a, b))
    ELSE Ok([a EXCEPT !.capabilities = @ \cup b.capabilities,
                      !.extensions = @ \cup b.extensions])

(***************************************************************************)
(* The IR as merge sees it.  A declaration handle (GlobalVar, Func) is a   *)
(* number drawn from the context's allocator of its kind.  The body of a   *)
(* declaration is the sequence of the uses it holds; a declaration is used *)
(* through an interned value: a Const (a pointer to a global variable) or  *)
(* a DataInstForm (a call of a function).  An interned value is identified *)
(* by its content, so the Const pointing to gv is written Use("Const", gv).*)
(***************************************************************************)
Use(kind, to) == [kind |-> kind, to |-> to]
Exportee(kind, h) == [kind |-> kind, h |-> h]

SrcGlobalVars == {1}
SrcFuncs == 1..NumSrcFuncs
DstGlobalVar0 == Cardinality(SrcGlobalVars) + 1   \* the global variable mergee starts with
DstFunc0 == NumSrcFuncs + 1                       \* the function mergee starts with
\* Export keys only matter by being equal or not: entry i of merged.exports has key i
Keys == 1..MaxExports

SrcUses == {Use("Const", g) : g \in SrcGlobalVars}
               \cup {Use("DataInstForm", f) : f \in SrcFuncs}
\* a declaration of merged holds no use or one
SrcBodies == {<<>>} \cup {<<u>> : u \in SrcUses}
SrcExportees == {Exportee("GlobalVar", g) : g \in SrcGlobalVars}
                    \cup {Exportee("Func", f) : f \in SrcFuncs}
\* merged.exports is an insertion-ordered map: a sequence of entries with distinct keys
SrcExports ==
    {es \in SeqsUpTo([key : Keys, exportee : SrcExportees], MaxExports) :
        \A i \in DOMAIN es : es[i].key = i}

(***************************************************************************)
(* CopyCollector.  The visitor's recursion is run with an explicit list of *)
(* pending visits: a visit replaces itself by the visits it makes, in      *)
(* order, which is the order of the recursive calls.  The walked state is  *)
(* w = [coll, dst, cx, origin]: the collector's own fields, dst_module     *)
(* (which is mergee), the context's allocators and the history of clones.  *)
(***************************************************************************)
Visit(op, h) == [op |-> op, h |-> h]

\* visit_global_var_decl / visit_func_decl: the uses a declaration holds, in order
visit_decl(body) ==
    [i \in DOMAIN body |->
        Visit(IF body[i].kind = "Const" THEN "const_use" ELSE "data_inst_form_use",
              body[i].to)]

\* EntityDefs::define: a fresh handle from the context, the definition stored under it
define_global_var(w, gv) ==
    LET nv == w.cx.next_global_var IN
    [w EXCEPT !.dst.global_vars = Put(@, nv, merged.global_vars[gv]),
              !.cx.next_global_var = nv + 1,
              !.origin.global_vars = Put(@, nv, gv)]

define_func(w, func) ==
    LET e == w.cx.next_func IN
    [w EXCEPT !.dst.funcs = Put(@, e, merged.funcs[func]),
              !.cx.next_func = e + 1,
              !.origin.funcs = Put(@, e, func)]

visit_const_use(w, ct) ==
    IF ct \notin w.coll.seen_consts
    THEN [w |-> [w EXCEPT !.coll.seen_consts = @ \cup {ct}],
          todo |-> <<Visit("global_var_use", ct)>>]
    ELSE [w |-> w, todo |-> <<>>]

visit_data_inst_form_use(w, form) ==
    IF form \notin w.coll.seen_data_inst_forms
    THEN [w |-> [w EXCEPT !.coll.seen_data_inst_forms = @ \cup {form}],
          todo |-> <<Visit("func_use", form)>>]
    ELSE [w |-> w, todo |-> <<>>]

visit_global_var_use(w, gv) ==
    IF gv \notin w.coll.seen_global_vars
    THEN [w |-> [w EXCEPT !.coll.seen_global_vars = @ \cup {gv}],
          todo |-> visit_decl(merged.global_vars[gv])]
    ELSE [w |-> [define_global_var(w, gv) EXCEPT
                    !.coll.rewrite_var = Put(@, gv, w.cx.next_global_var)],
          todo |-> <<>>]

\* faulty variant: the rewrite map records the handle allocated before the one just defined
visit_func_use_stale_handle(w, func) ==
    IF func \notin w.coll.seen_funcs
    THEN [w |-> [w EXCEPT !.coll.seen_funcs = @ \cup {func}],
          todo |-> visit_decl(merged.funcs[func])]
    ELSE [w |-> [define_func(w, func) EXCEPT
                    !.coll.rewrite_func = Put(@, func, w.cx.next_func - 1)],
          todo |-> <<>>]

visit_func_use(w, func) ==
    IF func \notin w.coll.seen_funcs
    THEN [w |-> [w EXCEPT !.coll.seen_funcs = @ \cup {func}],
          todo |-> visit_decl(merged.funcs[func])]
    ELSE [w |-> [define_func(w, func) EXCEPT
                    !.coll.rewrite_func = Put(@, func, w.cx.next_func)],
          todo |-> <<>>]

RECURSIVE Walk(_, _)
Walk(w, todo) ==
    IF todo = <<>> THEN w
    ELSE LET v == Head(todo)
             visited == CASE v.op = "const_use" -> visit_const_use(w, v.h)
                          [] v.op = "data_inst_form_use" -> visit_data_inst_form_use(w, v.h)
                          [] v.op = "global_var_use" -> visit_global_var_use(w, v.h)
                          [] v.op = "func_use" -> visit_func_use(w, v.h)
         \* the visit is carried out once, then the walk goes on from its outcome r
         IN CHOOSE out \in {Walk(r.w, r.todo \o Tail(todo)) : r \in {visited}} : TRUE

\* Exportee::inner_visit_with: an exportee is a use of the declaration it names
visit_exportee(e) ==
    Visit(IF e.kind = "GlobalVar" THEN "global_var_use" ELSE "func_use", e.h)

\* for exportee in merged.exports.values() { exportee.inner_visit_with(..) }
ExportVisits == [i \in DOMAIN merged.exports |-> visit_exportee(merged.exports[i].exportee)]

\* visit_module: every declaration of the module, global variables then functions
visit_module ==
    [i \in 1..Cardinality(SrcGlobalVars) |-> Visit("global_var_use", i)]
        \o [i \in 1..NumSrcFuncs |-> Visit("func_use", i)]

(***************************************************************************)
(* DeclRewrite.  A Transformed<T> is Unchanged or Changed(v).  The rewriter*)
(* state d holds the two resolved maps, the caches and the two queues.     *)
(***************************************************************************)
Unchanged == [tag |-> "Unchanged"]
Changed(v) == [tag |-> "Changed", v |-> v]
apply_to(t, x) == IF t.tag = "Changed" THEN t.v ELSE x

RECURSIVE transform_global_var_use(_, _)
transform_global_var_use(d, gv) ==
    IF gv \in DOMAIN d.transformed_global_vars
    THEN [d |-> d, t |-> d.transformed_global_vars[gv]]
    ELSE IF gv \in DOMAIN d.resolved_global_vars
    THEN LET r == transform_global_var_use(d, d.resolved_global_vars[gv])
             new_gv == apply_to(r.t, d.resolved_global_vars[gv])
         IN [d |-> [r.d EXCEPT !.transformed_global_vars = Put(@, gv, Changed(new_gv))],
             t |-> Changed(new_gv)]
    ELSE [d |-> [d EXCEPT !.global_var_queue = Append(@, gv),
                          !.transformed_global_vars = Put(@, gv, Unchanged)],
          t |-> Unchanged]

RECURSIVE transform_func_use(_, _)
\* faulty variant: the cache is filled but never looked up
transform_func_use_uncached(d, func) ==
    IF func \in DOMAIN d.resolved_funcs
    THEN LET r == transform_func_use(d, d.resolved_funcs[func])
             new_func == apply_to(r.t, d.resolved_funcs[func])
         IN [d |-> [r.d EXCEPT !.transformed_funcs = Put(@, func, Changed(new_func))],
             t |-> Changed(new_func)]
    ELSE [d |-> [d EXCEPT !.func_queue = Append(@, func),
                          !.transformed_funcs = Put(@, func, Unchanged)],
          t |-> Unchanged]

transform_func_use(d, func) ==
    IF func \in DOMAIN d.transformed_funcs
    THEN [d |-> d, t |-> d.transformed_funcs[func]]
    ELSE IF func \in DOMAIN d.resolved_funcs
    THEN LET r == transform_func_use(d, d.resolved_funcs[func])
             new_func == apply_to(r.t, d.resolved_funcs[func])
         IN [d |-> [r.d EXCEPT !.transformed_funcs = Put(@, func, Changed(new_func))],
             t |-> Changed(new_func)]
    ELSE [d |-> [d EXCEPT !.func_queue = Append(@, func),
                          !.transformed_funcs = Put(@, func, Unchanged)],
          t |-> Unchanged]

\* faulty variant: the rebuilt Const is not re-interned, the use is left as it was
transform_const_use_drops_change(d, ct) ==
    IF ct \in DOMAIN d.transformed_consts
    THEN [d |-> d, t |-> d.transformed_consts[ct]]
    ELSE LET r == transform_global_var_use(d, ct)
         IN [d |-> [r.d EXCEPT !.transformed_consts = Put(@, ct, Unchanged)],
             t |-> Unchanged]

\* the Const pointing to ct is rebuilt around the transformed global variable and
\* re-interned; the result is cached under the original Const
transform_const_use(d, ct) ==
    IF ct \in DOMAIN d.transformed_consts
    THEN [d |-> d, t |-> d.transformed_consts[ct]]
    ELSE LET r == transform_global_var_use(d, ct)
         IN [d |-> [r.d EXCEPT !.transformed_consts = Put(@, ct, r.t)], t |-> r.t]

\* faulty variant: the rebuilt DataInstForm is not re-interned, the use is left as it was
transform_data_inst_form_use_drops_change(d, form) ==
    IF form \in DOMAIN d.transformed_data_inst_forms
    THEN [d |-> d, t |-> d.transformed_data_inst_forms[form]]
    ELSE LET r == transform_func_use(d, form)
         IN [d |-> [r.d EXCEPT !.transformed_data_inst_forms = Put(@, form, Unchanged)],
             t |-> Unchanged]

transform_data_inst_form_use(d, form) ==
    IF form \in DOMAIN d.transformed_data_inst_forms
    THEN [d |-> d, t |-> d.transformed_data_inst_forms[form]]
    ELSE LET r == transform_func_use(d, form)
         IN [d |-> [r.d EXCEPT !.transformed_data_inst_forms = Put(@, form, r.t)],
             t |-> r.t]

\* in_place_transform_global_var_decl / in_place_transform_func_decl: every use the
\* declaration holds is transformed, in order, and the result applied to it
RECURSIVE in_place_transform_decl(_, _, _)
in_place_transform_decl(d, todo, done) ==
    IF todo = <<>> THEN [d |-> d, body |-> done]
    ELSE LET u == Head(todo)
             r == IF u.kind = "Const" THEN transform_const_use(d, u.to)
                  ELSE transform_data_inst_form_use(d, u.to)
         IN in_place_transform_decl(r.d, Tail(todo),
                                    Append(done, Use(u.kind, apply_to(r.t, u.to))))

\* Exportee::inner_transform_with(..).apply_to(exportee)
transform_exportee(d, e) ==
    LET r == IF e.kind = "GlobalVar" THEN transform_global_var_use(d, e.h)
             ELSE transform_func_use(d, e.h)
    IN [d |-> r.d, exportee |-> Exportee(e.kind, apply_to(r.t, e.h))]

(***************************************************************************)
(* merge(mergee, merged), one action per step of its body.                 *)
(***************************************************************************)
NewCopyCollector ==
    [seen_consts |-> {}, seen_data_inst_forms |-> {},
     seen_global_vars |-> {}, seen_funcs |-> {},
     rewrite_func |-> EmptyMap, rewrite_var |-> EmptyMap]

NewDeclRewrite(resolved_global_vars, resolved_funcs) ==
    [resolved_global_vars |-> resolved_global_vars, resolved_funcs |-> resolved_funcs,
     transformed_consts |-> EmptyMap, transformed_data_inst_forms |-> EmptyMap,
     transformed_global_vars |-> EmptyMap, global_var_queue |-> <<>>,
     transformed_funcs |-> EmptyMap, func_queue |-> <<>>]

NoDialect == [none |-> TRUE]
LowerIdle ==
    /\ header = <<>> /\ consumed = <<>> /\ dialect = NoDialect /\ seq = 0
    /\ has_memory_model = FALSE /\ pending_attrs = EmptyMap /\ id_defs = EmptyMap
    /\ top_level = <<>> /\ lpc = "idle" /\ lresult = NoResult

\* the dialect of mergee, and the dialects merged may have beside it
DstDialect ==
    [version_major |-> 1, version_minor |-> 3, original_generator_magic |-> 7,
     original_id_bound |-> 8, capabilities |-> {1}, extensions |-> {},
     addressing_model |-> 0, memory_model |-> 0]
SrcDialect == [DstDialect EXCEPT !.original_generator_magic = 9,
                                 !.capabilities = Caps, !.extensions = Exts]
SrcDialectsMismatched ==
    {[SrcDialect EXCEPT !.version_minor = 5],
     [SrcDialect EXCEPT !.version_minor = 5, !.addressing_model = 1],
     [SrcDialect EXCEPT !.version_minor = 5, !.addressing_model = 1,
                        !.memory_model = 1]}

\* mergee before the merge: one global variable, one function using it, and at most
\* one export
DstExports == {EmptyMap} \cup {k :> Exportee("Func", DstFunc0) : k \in Keys}

InitModules(dst_dialects, src_dialects, src_bodies) ==
    /\ mergee \in [dialect : dst_dialects, exports : DstExports,
                   global_vars : {DstGlobalVar0 :> <<>>},
                   funcs : {DstFunc0 :> <<Use("Const", DstGlobalVar0)>>}]
    /\ merged \in [dialect : src_dialects, exports : SrcExports,
                   global_vars : [SrcGlobalVars -> src_bodies],
                   funcs : [SrcFuncs -> src_bodies]]
    /\ cx = [next_global_var |-> DstGlobalVar0 + 1, next_func |-> DstFunc0 + 1]
    /\ cpycoll = NewCopyCollector
    /\ decl_rewrite = NewDeclRewrite(EmptyMap, EmptyMap)
    /\ resolved_dialect = NoDialect
    /\ export_idx = 1
    /\ pc = "make_compatible"
    /\ result = NoResult
    /\ pre = mergee
    /\ origin = [global_vars |-> EmptyMap, funcs |-> EmptyMap]
    /\ rewritten = <<>>

\* merge returns a dialect error before it looks at the declarations of merged: with
\* mismatched dialects the declarations of merged are taken to hold nothing
InitMerge ==
    /\ \/ InitModules({DstDialect}, {SrcDialect}, SrcBodies)
       \/ InitModules({DstDialect}, SrcDialectsMismatched, {<<>>})
    /\ LowerIdle

\* let resolved_dialect = make_compatible(mergee.dialect.clone(), &merged.dialect)?;
DialectMismatch ==
    /\ pc = "make_compatible"
    /\ make_compatible(mergee.dialect, merged.dialect).tag = "Err"
    /\ result' = make_compatible(mergee.dialect, merged.dialect)
    /\ pc' = "done"
    /\ UNCHANGED <<mergee, merged, cx, cpycoll, decl_rewrite, resolved_dialect,
                   export_idx, pre, origin, rewritten, lower_vars>>

DialectResolved ==
    /\ pc = "make_compatible"
    /\ make_compatible(mergee.dialect, merged.dialect).tag = "Ok"
    /\ resolved_dialect' = make_compatible(mergee.dialect, merged.dialect).v
    /\ pc' = "visit_exports"
    /\ UNCHANGED <<mergee, merged, cx, cpycoll, decl_rewrite, export_idx, result,
                   pre, origin, rewritten, lower_vars>>

Collect(visits) ==
    LET w == Walk([coll |-> cpycoll, dst |-> mergee, cx |-> cx, origin |-> origin],
                  visits)
    IN /\ cpycoll' = w.coll
       /\ mergee' = w.dst
       /\ cx' = w.cx
       /\ origin' = w.origin

\* for exportee in merged.exports.values() { exportee.inner_visit_with(&mut cpycoll); }
VisitExports ==
    /\ pc = "visit_exports"
    /\ Collect(ExportVisits)
    /\ pc' = "visit_module"
    /\ UNCHANGED <<merged, decl_rewrite, resolved_dialect, export_idx, result, pre,
                   rewritten, lower_vars>>

\* while !global_var_queue.is_empty() || !func_queue.is_empty(): the position the
\* loop condition leads to (the first inner loop is skipped when it has nothing to pop)
DrainLoop(d) ==
    IF d.global_var_queue # <<>> THEN "drain_global_vars"
    ELSE IF d.func_queue # <<>> THEN "drain_funcs"
    ELSE "finish"

\* faulty variant: the outer loop is not entered again after the function queue
DrainFuncsLoop_single_pass(d) ==
    IF d.func_queue # <<>> THEN "drain_funcs" ELSE "finish"

\* the second inner loop goes on popping functions until its own queue is empty
DrainFuncsLoop(d) ==
    IF d.func_queue # <<>> THEN "drain_funcs" ELSE DrainLoop(d)

\* for (k, e) in merged.exports.iter(): the position after entry i - 1
ExportsLoop(i, d) ==
    IF i <= Len(merged.exports) THEN "register_export" ELSE DrainLoop(d)

\* cpycoll.visit_module(&merged); then the DeclRewrite is built from the two maps
VisitModule ==
    /\ pc = "visit_module"
    /\ Collect(visit_module)
    /\ decl_rewrite' = NewDeclRewrite(cpycoll'.rewrite_var, cpycoll'.rewrite_func)
    /\ pc' = ExportsLoop(1, decl_rewrite')
    /\ UNCHANGED <<merged, resolved_dialect, export_idx, result, pre, rewritten,
                   lower_vars>>

\* IndexMap::insert: the value is stored under the key, replacing the one that was
\* there
exports_insert(exports, k, e) == Put(exports, k, e)

\* one iteration of the export loop, the key being new to mergee.exports
RegisterExport ==
    /\ pc = "register_export"
    /\ LET k == merged.exports[export_idx].key
           e == merged.exports[export_idx].exportee
           r == transform_exportee(decl_rewrite, e)
       IN /\ k \notin DOMAIN mergee.exports
          /\ mergee' = [mergee EXCEPT !.exports = exports_insert(@, k, r.exportee)]
          /\ decl_rewrite' = r.d
          /\ export_idx' = export_idx + 1
          /\ pc' = ExportsLoop(export_idx + 1, r.d)
    /\ UNCHANGED <<merged, cx, cpycoll, resolved_dialect, result, pre, origin,
                   rewritten, lower_vars>>

\* faulty variant: the duplicate is reported only after the export has been rewritten
DuplicateExportKey_after_rewrite ==
    /\ pc = "register_export"
    /\ LET k == merged.exports[export_idx].key
           e == merged.exports[export_idx].exportee
           r == transform_exportee(decl_rewrite, e)
       IN /\ k \in DOMAIN mergee.exports
          /\ mergee' = [mergee EXCEPT !.exports = exports_insert(@, k, r.exportee)]
          /\ decl_rewrite' = r.d
    /\ result' = Err([kind |-> "DuplicateExportKey"])
    /\ pc' = "done"
    /\ UNCHANGED <<merged, cx, cpycoll, resolved_dialect, export_idx, pre, origin,
                   rewritten, lower_vars>>

\* faulty variant: the failure undoes the merge so far and leaves mergee as it was
DuplicateExportKey_rolls_back ==
    /\ pc = "register_export"
    /\ merged.exports[export_idx].key \in DOMAIN mergee.exports
    /\ mergee' = pre
    /\ result' = Err([kind |-> "DuplicateExportKey"])
    /\ pc' = "done"
    /\ UNCHANGED <<merged, cx, cpycoll, decl_rewrite, resolved_dialect, export_idx,
                   pre, origin, rewritten, lower_vars>>

\* one iteration of the export loop, the key being in mergee.exports already: insert
\* has stored the new value when merge returns the error
DuplicateExportKey ==
    /\ pc = "register_export"
    /\ LET k == merged.exports[export_idx].key
           e == merged.exports[export_idx].exportee
       IN /\ k \in DOMAIN mergee.exports
          /\ mergee' = [mergee EXCEPT !.exports = exports_insert(@, k, e)]
    /\ result' = Err([kind |-> "DuplicateExportKey"])
    /\ pc' = "done"
    /\ UNCHANGED <<merged, cx, cpycoll, decl_rewrite, resolved_dialect, export_idx,
                   pre, origin, rewritten, lower_vars>>

Panicked == [tag |-> "Panic"]

\* while let Some(gv) = global_var_queue.pop_front() { in_place_transform(..) }
\* (indexing mergee.global_vars with a handle it does not hold panics)
DrainGlobalVar ==
    /\ pc = "drain_global_vars"
    /\ LET gv == Head(decl_rewrite.global_var_queue)
           d == [decl_rewrite EXCEPT !.global_var_queue = Tail(@)]
       IN IF gv \notin DOMAIN mergee.global_vars
          THEN /\ result' = Panicked
               /\ pc' = "done"
               /\ decl_rewrite' = d
               /\ UNCHANGED <<mergee, rewritten>>
          ELSE LET r == in_place_transform_decl(d, mergee.global_vars[gv], <<>>)
               IN /\ mergee' = [mergee EXCEPT !.global_vars[gv] = r.body]
                  /\ decl_rewrite' = r.d
                  /\ rewritten' = Append(rewritten, Exportee("GlobalVar", gv))
                  /\ pc' = DrainLoop(r.d)
                  /\ UNCHANGED result
    /\ UNCHANGED <<merged, cx, cpycoll, resolved_dialect, export_idx, pre, origin,
                   lower_vars>>

\* faulty variant: the front of the queue is looked at but not popped
DrainFunc_peeks ==
    /\ pc = "drain_funcs"
    /\ LET func == Head(decl_rewrite.func_queue)
           d == decl_rewrite
       IN IF func \notin DOMAIN mergee.funcs
          THEN /\ result' = Panicked
               /\ pc' = "done"
               /\ decl_rewrite' = d
               /\ UNCHANGED <<mergee, rewritten>>
          ELSE LET r == in_place_transform_decl(d, mergee.funcs[func], <<>>)
               IN /\ mergee' = [mergee EXCEPT !.funcs[func] = r.body]
                  /\ decl_rewrite' = r.d
                  /\ rewritten' = IF \E i \in DOMAIN rewritten :
                                        rewritten[i] = Exportee("Func", func)
                                   THEN rewritten
                                   ELSE Append(rewritten, Exportee("Func", func))
                  /\ pc' = DrainFuncsLoop(r.d)
                  /\ UNCHANGED result
    /\ UNCHANGED <<merged, cx, cpycoll, resolved_dialect, export_idx, pre, origin,
                   lower_vars>>

\* while let Some(func) = func_queue.pop_front() { in_place_transform(..) }
DrainFunc ==
    /\ pc = "drain_funcs"
    /\ LET func == Head(decl_rewrite.func_queue)
           d == [decl_rewrite EXCEPT !.func_queue = Tail(@)]
       IN IF func \notin DOMAIN mergee.funcs
          THEN /\ result' = Panicked
               /\ pc' = "done"
               /\ decl_rewrite' = d
               /\ UNCHANGED <<mergee, rewritten>>
          ELSE LET r == in_place_transform_decl(d, mergee.funcs[func], <<>>)
               IN /\ mergee' = [mergee EXCEPT !.funcs[func] = r.body]
                  /\ decl_rewrite' = r.d
                  /\ rewritten' = Append(rewritten, Exportee("Func", func))
                  /\ pc' = DrainFuncsLoop(r.d)
                  /\ UNCHANGED result
    /\ UNCHANGED <<merged, cx, cpycoll, resolved_dialect, export_idx, pre, origin,
                   lower_vars>>

\* mergee.dialect = resolved_dialect; Ok(())
Finish ==
    /\ pc = "finish"
    /\ mergee' = [mergee EXCEPT !.dialect = resolved_dialect]
    /\ result' = Ok(<<>>)
    /\ pc' = "done"
    /\ UNCHANGED <<merged, cx, cpycoll, decl_rewrite, resolved_dialect, export_idx,
                   pre, origin, rewritten, lower_vars>>

NextMerge ==
    \/ DialectMismatch
    \/ DialectResolved
    \/ VisitExports
    \/ VisitModule
    \/ RegisterExport
    \/ DuplicateExportKey
    \/ DrainGlobalVar
    \/ DrainFunc
    \/ Finish

SpecMerge == InitMerge /\ [][NextMerge]_vars

\* merge is straight-line sequential code: whenever it has a next step, it takes it
SpecMergeLive == InitMerge /\ [][NextMerge]_vars /\ WF_vars(NextMerge)

(***************************************************************************)
(* merge with the pop order of the drain phase left open: instead of the   *)
(* front of the global-variable queue first, any queued declaration of     *)
(* either queue is taken next.  Everything before the drain phase is as in *)
(* SpecMerge.                                                              *)
(***************************************************************************)
RemoveAt(q, i) == SubSeq(q, 1, i - 1) \o SubSeq(q, i + 1, Len(q))

DrainAnyGlobalVar ==
    /\ pc \in {"drain_global_vars", "drain_funcs"}
    /\ \E i \in DOMAIN decl_rewrite.global_var_queue :
          LET gv == decl_rewrite.global_var_queue[i]
              d == [decl_rewrite EXCEPT !.global_var_queue = RemoveAt(@, i)]
          IN IF gv \notin DOMAIN mergee.global_vars
             THEN /\ result' = Panicked
                  /\ pc' = "done"
                  /\ decl_rewrite' = d
                  /\ UNCHANGED <<mergee, rewritten>>
             ELSE LET r == in_place_transform_decl(d, mergee.global_vars[gv], <<>>)
                  IN /\ mergee' = [mergee EXCEPT !.global_vars[gv] = r.body]
                     /\ decl_rewrite' = r.d
                     /\ rewritten' = Append(rewritten, Exportee("GlobalVar", gv))
                     /\ pc' = DrainLoop(r.d)
                     /\ UNCHANGED result
    /\ UNCHANGED <<merged, cx, cpycoll, resolved_dialect, export_idx, pre, origin,
                   lower_vars>>

DrainAnyFunc ==
    /\ pc \in {"drain_global_vars", "drain_funcs"}
    /\ \E i \in DOMAIN decl_rewrite.func_queue :
          LET func == decl_rewrite.func_queue[i]
              d == [decl_rewrite EXCEPT !.func_queue = RemoveAt(@, i)]
          IN IF func \notin DOMAIN mergee.funcs
             THEN /\ result' = Panicked
                  /\ pc' = "done"
                  /\ decl_rewrite' = d
                  /\ UNCHANGED <<mergee, rewritten>>
             ELSE LET r == in_place_transform_decl(d, mergee.funcs[func], <<>>)
                  IN /\ mergee' = [mergee EXCEPT !.funcs[func] = r.body]
                     /\ decl_rewrite' = r.d
                     /\ rewritten' = Append(rewritten, Exportee("Func", func))
                     /\ pc' = DrainLoop(r.d)
                     /\ UNCHANGED result
    /\ UNCHANGED <<merged, cx, cpycoll, resolved_dialect, export_idx, pre, origin,
                   lower_vars>>

NextMergeAnyOrder ==
    \/ DialectMismatch
    \/ DialectResolved
    \/ VisitExports
    \/ VisitModule
    \/ RegisterExport
    \/ DuplicateExportKey
    \/ DrainAnyGlobalVar
    \/ DrainAnyFunc
    \/ Finish

SpecMergeAnyOrder == InitMerge /\ [][NextMergeAnyOrder]_vars

(***************************************************************************)
(* make_compatible on its own: merge entered with any two dialects (the    *)
(* version of mergee fixed at 1.3), followed up to the dialect check.      *)
(***************************************************************************)
InitDialect ==
    /\ mergee \in [dialect : DialectsOf(7, {1}, {3}), exports : {EmptyMap},
                   global_vars : {DstGlobalVar0 :> <<>>},
                   funcs : {DstFunc0 :> <<Use("Const", DstGlobalVar0)>>}]
    /\ merged \in [dialect : DialectsOf(9, {1, 2}, {3, 5}), exports : {<<>>},
                   global_vars : [SrcGlobalVars -> {<<>>}],
                   funcs : [SrcFuncs -> {<<>>}]]
    /\ cx = [next_global_var |-> DstGlobalVar0 + 1, next_func |-> DstFunc0 + 1]
    /\ cpycoll = NewCopyCollector
    /\ decl_rewrite = NewDeclRewrite(EmptyMap, EmptyMap)
    /\ resolved_dialect = NoDialect
    /\ export_idx = 1
    /\ pc = "make_compatible"
    /\ result = NoResult
    /\ pre = mergee
    /\ origin = [global_vars |-> EmptyMap, funcs |-> EmptyMap]
    /\ rewritten = <<>>
    /\ LowerIdle

NextDialect ==
    \/ DialectMismatch
    \/ DialectResolved

SpecDialect == InitDialect /\ [][NextDialect]_vars

(***************************************************************************)
(* Module::lower_from_spv_module_parser.  The parser's header is chosen at *)
(* the start; the instructions are chosen one by one as parser.next()      *)
(* yields them, and kept in consumed.  (An error of the parser itself is   *)
(* not modelled: the stream is one the reader could decode.)               *)
(***************************************************************************)
Ids == 1..NumIds
BadLiteral == "bad"     \* a name or string extract_literal_string fails on
Literals == {"s", BadLiteral}
BadExtension == 0       \* an extension name extract_literal_string fails on

Capability == 1
Extension == 2
ExtInstImport == 3
MemoryModel == 4
EntryPoint == 5
ExecutionMode == 6
DebugStringAndSource == 7
Other == 8

Headers ==
    [version : {66816, 66817, 16843008}, generator_magic : {7},
     id_bound : {0, 8}, reserved_inst_schema : {0, 1}]

\* faulty variant: the bytes of the word least significant first
to_le_bytes(w) ==
    <<w % 256, (w \div 256) % 256, (w \div 65536) % 256, (w \div 16777216) % 256>>

\* u32::to_be_bytes: the bytes of a 32-bit word, most significant first
to_be_bytes(w) ==
    <<(w \div 16777216) % 256, (w \div 65536) % 256, (w \div 256) % 256, w % 256>>

\* invalid(reason), and the loop's invalid(msg) that names the instruction
Malformed(reason) == Err([kind |-> reason])
InInst(opcode, msg) == Err([kind |-> msg, in |-> opcode])
OutOfOrder(opcode, next_seq, prev_seq) ==
    Err([kind |-> "out of order", in |-> opcode, must_precede |-> <<next_seq, prev_seq>>])
NeverDefined(ids) == Err([kind |-> "decorated IDs never defined", ids |-> ids])

InitLower ==
    /\ header \in Headers
    /\ consumed = <<>>
    /\ dialect = NoDialect
    /\ seq = 0
    /\ has_memory_model = FALSE
    /\ pending_attrs = EmptyMap
    /\ id_defs = EmptyMap
    /\ top_level = <<>>
    /\ lpc = "header"
    /\ lresult = NoResult
    /\ mergee = <<>> /\ merged = <<>> /\ cx = <<>> /\ cpycoll = <<>>
    /\ decl_rewrite = <<>> /\ resolved_dialect = NoDialect /\ export_idx = 0
    /\ pc = "idle" /\ result = NoResult /\ pre = <<>> /\ origin = <<>>
    /\ rewritten = <<>>

HeaderError ==
    LET b == to_be_bytes(header.version)
    IN IF <<b[4], b[1]>> # <<0, 0>> THEN "version is not in expected (0.major.minor.0) form"
       ELSE IF header.reserved_inst_schema # 0 THEN "unknown instruction schema"
       ELSE IF header.id_bound = 0 THEN "ID bound 0"
       ELSE "none"

RejectHeader ==
    /\ lpc = "header"
    /\ HeaderError # "none"
    /\ lresult' = Malformed(HeaderError)
    /\ lpc' = "done"
    /\ UNCHANGED <<header, consumed, dialect, seq, has_memory_model, pending_attrs,
                   id_defs, top_level, merge_vars>>

LowerHeader ==
    /\ lpc = "header"
    /\ HeaderError = "none"
    /\ dialect' = [version_major |-> to_be_bytes(header.version)[2],
                   version_minor |-> to_be_bytes(header.version)[3],
                   original_generator_magic |-> header.generator_magic,
                   original_id_bound |-> header.id_bound,
                   capabilities |-> {}, extensions |-> {},
                   addressing_model |-> 0, memory_model |-> 0]
    /\ lpc' = "insts"
    /\ UNCHANGED <<header, consumed, seq, has_memory_model, pending_attrs, id_defs,
                   top_level, lresult, merge_vars>>

\* parser.next() yields inst: the loop is at its head and the stream is not over
Yields(inst) ==
    /\ lpc = "insts"
    /\ Len(consumed) < MaxInsts
    /\ consumed' = Append(consumed, inst)

\* faulty variant: an instruction of the category of the one before it is out of order too
SeqCheck_strict(inst, next_seq) ==
    IF ~(seq < next_seq)
    THEN /\ lresult' = OutOfOrder(inst.opcode, next_seq, seq)
         /\ lpc' = "done"
         /\ UNCHANGED seq
    ELSE /\ seq' = next_seq
         /\ UNCHANGED <<lresult, lpc>>

\* the end of the loop body: if !(seq <= Some(next_seq)) { return Err(..) }
\* seq = Some(next_seq)
SeqCheck(inst, next_seq) ==
    IF ~(seq <= next_seq)
    THEN /\ lresult' = OutOfOrder(inst.opcode, next_seq, seq)
         /\ lpc' = "done"
         /\ UNCHANGED seq
    ELSE /\ seq' = next_seq
         /\ UNCHANGED <<lresult, lpc>>

\* an instruction the loop body rejects before it reaches the order check
Reject(inst, msg) ==
    /\ lresult' = InInst(inst.opcode, msg)
    /\ lpc' = "done"
    /\ UNCHANGED <<dialect, seq, has_memory_model, pending_attrs, id_defs, top_level>>

LowerCapability ==
    \E inst \in [opcode : {"OpCapability"}, cap : {1, NumCaps}] :
        /\ Yields(inst)
        /\ dialect' = [dialect EXCEPT !.capabilities = @ \cup {inst.cap}]
        /\ SeqCheck(inst, Capability)
        /\ UNCHANGED <<header, has_memory_model, pending_attrs, id_defs, top_level,
                       merge_vars>>

LowerExtension ==
    \E inst \in [opcode : {"OpExtension"}, ext : Exts \cup {BadExtension}] :
        /\ Yields(inst)
        /\ IF inst.ext = BadExtension
           THEN Reject(inst, "bad literal string")
           ELSE /\ dialect' = [dialect EXCEPT !.extensions = @ \cup {inst.ext}]
                /\ SeqCheck(inst, Extension)
                /\ UNCHANGED <<has_memory_model, pending_attrs, id_defs, top_level>>
        /\ UNCHANGED <<header, merge_vars>>

LowerExtInstImport ==
    \E inst \in [opcode : {"OpExtInstImport"}, result_id : Ids, name : Literals] :
        /\ Yields(inst)
        /\ IF inst.name = BadLiteral
           THEN Reject(inst, "bad literal string")
           ELSE /\ id_defs' = Put(id_defs, inst.result_id,
                                  [kind |-> "SpvExtInstImport", v |-> inst.name])
                /\ SeqCheck(inst, ExtInstImport)
                /\ UNCHANGED <<dialect, has_memory_model, pending_attrs, top_level>>
        /\ UNCHANGED <<header, merge_vars>>

\* faulty variant: a second OpMemoryModel is taken like the first and overwrites the models
LowerMemoryModel_overwrites ==
    \E inst \in [opcode : {"OpMemoryModel"}, addressing_model : {1, 2},
                 memory_model : {3}] :
        /\ Yields(inst)
        /\ has_memory_model' = TRUE
        /\ dialect' = [dialect EXCEPT !.addressing_model = inst.addressing_model,
                                      !.memory_model = inst.memory_model]
        /\ SeqCheck(inst, MemoryModel)
        /\ UNCHANGED <<pending_attrs, id_defs, top_level, header, merge_vars>>

LowerMemoryModel ==
    \E inst \in [opcode : {"OpMemoryModel"}, addressing_model : {1, 2},
                 memory_model : {3}] :
        /\ Yields(inst)
        /\ IF has_memory_model
           THEN Reject(inst, "duplicate OpMemoryModel")
           ELSE /\ has_memory_model' = TRUE
                /\ dialect' = [dialect EXCEPT !.addressing_model = inst.addressing_model,
                                              !.memory_model = inst.memory_model]
                /\ SeqCheck(inst, MemoryModel)
                /\ UNCHANGED <<pending_attrs, id_defs, top_level>>
        /\ UNCHANGED <<header, merge_vars>>

\* faulty variant: a debug string is placed in the last category, so that it may
\* follow a catch-all instruction
LowerString_among_others ==
    \E inst \in [opcode : {"OpString"}, result_id : Ids, s : Literals] :
        /\ Yields(inst)
        /\ IF inst.s = BadLiteral
           THEN Reject(inst, "bad literal string")
           ELSE /\ id_defs' = Put(id_defs, inst.result_id,
                                  [kind |-> "SpvDebugString", v |-> inst.s])
                /\ SeqCheck(inst, Other)
                /\ UNCHANGED <<dialect, has_memory_model, pending_attrs, top_level>>
        /\ UNCHANGED <<header, merge_vars>>

LowerString ==
    \E inst \in [opcode : {"OpString"}, result_id : Ids, s : Literals] :
        /\ Yields(inst)
        /\ IF inst.s = BadLiteral
           THEN Reject(inst, "bad literal string")
           ELSE /\ id_defs' = Put(id_defs, inst.result_id,
                                  [kind |-> "SpvDebugString", v |-> inst.s])
                /\ SeqCheck(inst, DebugStringAndSource)
                /\ UNCHANGED <<dialect, has_memory_model, pending_attrs, top_level>>
        /\ UNCHANGED <<header, merge_vars>>

\* faulty variant: the attribute replaces the ones pending for the target
defer_attr_replaces(attrs, target_id, attr) == Put(attrs, target_id, {attr})

\* pending_attrs.entry(target_id).or_default().insert(attr)
defer_attr(attrs, target_id, attr) ==
    Put(attrs, target_id,
        (IF target_id \in DOMAIN attrs THEN attrs[target_id] ELSE {}) \cup {attr})

LowerEntryPoint ==
    \E inst \in [opcode : {"OpEntryPoint"}, target_id : Ids] :
        /\ Yields(inst)
        /\ pending_attrs' = defer_attr(pending_attrs, inst.target_id,
                                       [kind |-> "SpvEntryPoint", params |-> <<"imm">>,
                                        interface_ids |-> <<>>])
        /\ SeqCheck(inst, EntryPoint)
        /\ UNCHANGED <<header, dialect, has_memory_model, id_defs, top_level,
                       merge_vars>>

\* OpExecutionMode, OpName, OpDecorate and their kin: a target and trailing operands,
\* which are all immediates or hold an ID
LowerAnnotation ==
    \E inst \in [opcode : {"OpExecutionMode", "OpDecorate"}, target_id : Ids,
                 id_operand : BOOLEAN] :
        /\ Yields(inst)
        /\ IF inst.id_operand
           THEN Reject(inst, "unsupported decoration with ID")
           ELSE /\ pending_attrs' =
                       defer_attr(pending_attrs, inst.target_id,
                                  [kind |-> "SpvAnnotation", opcode |-> inst.opcode,
                                   params |-> <<"imm">>])
                /\ SeqCheck(inst, IF inst.opcode = "OpExecutionMode"
                                  THEN ExecutionMode ELSE Other)
                /\ UNCHANGED <<dialect, has_memory_model, id_defs, top_level>>
        /\ UNCHANGED <<header, merge_vars>>

\* an operand of a catch-all instruction: 0 is an immediate, anything else an ID,
\* resolved against id_defs as it is now
misc_input(operand) ==
    IF operand = 0 THEN [kind |-> "SpvImm"]
    ELSE IF operand \in DOMAIN id_defs THEN id_defs[operand]
    ELSE [kind |-> "SpvUntrackedId", v |-> operand]

\* faulty variant: the pending attributes are attached but stay in the table
LowerOther_keeps_pending ==
    \E inst \in [opcode : {"OpUndef"}, result_id : {0} \cup Ids,
                 operand : {0, 1}] :
        /\ Yields(inst)
        /\ top_level' =
              Append(top_level,
                     [opcode |-> inst.opcode, output |-> inst.result_id,
                      inputs |-> <<misc_input(inst.operand)>>,
                      attrs |-> IF inst.result_id # 0
                                   /\ inst.result_id \in DOMAIN pending_attrs
                                THEN <<pending_attrs[inst.result_id]>> ELSE <<>>])
        /\ pending_attrs' = pending_attrs
        /\ SeqCheck(inst, Other)
        /\ UNCHANGED <<header, dialect, has_memory_model, id_defs, merge_vars>>

\* every other instruction (result_id 0: it has none)
LowerOther ==
    \E inst \in [opcode : {"OpUndef"}, result_id : {0} \cup Ids,
                 operand : {0, 1}] :
        /\ Yields(inst)
        /\ top_level' =
              Append(top_level,
                     [opcode |-> inst.opcode, output |-> inst.result_id,
                      inputs |-> <<misc_input(inst.operand)>>,
                      attrs |-> IF inst.result_id # 0
                                   /\ inst.result_id \in DOMAIN pending_attrs
                                THEN <<pending_attrs[inst.result_id]>> ELSE <<>>])
        /\ pending_attrs' =
              IF inst.result_id # 0
              THEN [id \in (DOMAIN pending_attrs) \ {inst.result_id} |-> pending_attrs[id]]
              ELSE pending_attrs
        /\ SeqCheck(inst, Other)
        /\ UNCHANGED <<header, dialect, has_memory_model, id_defs, merge_vars>>

\* faulty variant: attributes still pending at the end of the stream are dropped
EndOfStream_ignores_pending ==
    /\ lpc = "insts"
    /\ lresult' = IF ~has_memory_model THEN Malformed("missing OpMemoryModel")
                  ELSE Ok([dialect |-> dialect, top_level |-> top_level])
    /\ lpc' = "done"
    /\ UNCHANGED <<header, consumed, dialect, seq, has_memory_model, pending_attrs,
                   id_defs, top_level, merge_vars>>

\* parser.next() yields None: the checks after the loop, then Ok(Self { .. })
EndOfStream ==
    /\ lpc = "insts"
    /\ lresult' = IF ~has_memory_model THEN Malformed("missing OpMemoryModel")
                  ELSE IF DOMAIN pending_attrs # {}
                  THEN NeverDefined(DOMAIN pending_attrs)
                  ELSE Ok([dialect |-> dialect, top_level |-> top_level])
    /\ lpc' = "done"
    /\ UNCHANGED <<header, consumed, dialect, seq, has_memory_model, pending_attrs,
                   id_defs, top_level, merge_vars>>

NextLower ==
    \/ RejectHeader
    \/ LowerHeader
    \/ LowerCapability
    \/ LowerExtension
    \/ LowerExtInstImport
    \/ LowerMemoryModel
    \/ LowerString
    \/ LowerEntryPoint
    \/ LowerAnnotation
    \/ LowerOther
    \/ EndOfStream

SpecLower == InitLower /\ [][NextLower]_vars

(***************************************************************************)
(* Vocabulary of the claims about merge.                                   *)
(***************************************************************************)
KindOfUse(u) == IF u.kind = "Const" THEN "GlobalVar" ELSE "Func"
RefOf(u) == Exportee(KindOfUse(u), u.to)
ArenaOf(m, kind) == IF kind = "GlobalVar" THEN m.global_vars ELSE m.funcs
Resident(m, x) == x.h \in DOMAIN ArenaOf(m, x.kind)
BodyIn(m, x) == IF Resident(m, x) THEN ArenaOf(m, x.kind)[x.h] ELSE <<>>
RefsIn(m, x) == {RefOf(BodyIn(m, x)[i]) : i \in DOMAIN BodyIn(m, x)}

\* the declarations reachable in module m from the declarations S
RECURSIVE ReachFrom(_, _)
ReachFrom(m, S) ==
    LET N == S \cup UNION {RefsIn(m, x) : x \in S}
    IN IF N = S THEN S ELSE ReachFrom(m, N)

SrcDecls == {Exportee("GlobalVar", g) : g \in SrcGlobalVars}
                \cup {Exportee("Func", f) : f \in SrcFuncs}
SrcExported == {merged.exports[i].exportee : i \in DOMAIN merged.exports}
SrcReachable == ReachFrom(merged, SrcExported)
RewriteMap(kind) == IF kind = "GlobalVar" THEN cpycoll.rewrite_var ELSE cpycoll.rewrite_func
OriginMap(kind) == IF kind = "GlobalVar" THEN origin.global_vars ELSE origin.funcs
\* the declarations of mergee that are clones of the declaration x of merged
CopiesOf(x) == {h \in DOMAIN OriginMap(x.kind) : OriginMap(x.kind)[h] = x.h}
MergeOk == result = Ok(<<>>)
MergeDuplicateKey == result = Err([kind |-> "DuplicateExportKey"])

\* C1: after merge returns Ok, every declaration of merged reachable from an export of
\* merged has an entry in the rewrite map of its kind, and the handle recorded there
\* is a declaration of mergee cloned from it.
C1_ReachableCopied ==
    MergeOk =>
        \A x \in SrcReachable :
            /\ x.h \in DOMAIN RewriteMap(x.kind)
            /\ Resident(mergee, Exportee(x.kind, RewriteMap(x.kind)[x.h]))
            /\ RewriteMap(x.kind)[x.h] \in CopiesOf(x)

\* a successful merge in which an export reaches a declaration that is not exported
C1_Witness ==
    /\ MergeOk
    /\ SrcReachable \ SrcExported # {}

\* C2: merge never copies into mergee a declaration of merged that no export of merged
\* reaches: no clone of it is defined, and it gets no rewrite-map entry.
C2_UnreachableNeverCopied ==
    \A x \in SrcDecls \ SrcReachable :
        /\ CopiesOf(x) = {}
        /\ x.h \notin DOMAIN RewriteMap(x.kind)

\* C3: after merge returns Ok, the arenas of mergee hold the declarations mergee had
\* (same handles) and exactly one clone of each export-reachable declaration of
\* merged, nothing else.
C3_ExactlyOneCopy ==
    MergeOk =>
        /\ \A kind \in {"GlobalVar", "Func"} :
              /\ DOMAIN ArenaOf(pre, kind) \subseteq DOMAIN ArenaOf(mergee, kind)
              /\ DOMAIN ArenaOf(mergee, kind)
                    = DOMAIN ArenaOf(pre, kind) \cup DOMAIN OriginMap(kind)
        /\ \A x \in SrcDecls :
              Cardinality(CopiesOf(x)) = IF x \in SrcReachable THEN 1 ELSE 0

\* the entries merge has put into mergee.exports: those before the loop position
InsertedKeys == {merged.exports[i].key : i \in 1..(export_idx - 1)}
InsertedExportees == {mergee.exports[k] : k \in InsertedKeys}
\* body b is body a with every use replaced by the handle the rewrite map records
IsRewriteOf(b, a) ==
    /\ Len(b) = Len(a)
    /\ \A j \in DOMAIN a :
          /\ b[j].kind = a[j].kind
          /\ a[j].to \in DOMAIN RewriteMap(KindOfUse(a[j]))
          /\ b[j].to = RewriteMap(KindOfUse(a[j]))[a[j].to]

\* C4: after merge returns Ok, every export entry inserted from merged names the
\* declaration of mergee its rewrite-map entry records, and every declaration of
\* mergee reachable from those entries is resident in mergee, holds only uses of
\* declarations resident in mergee, and is the clone of a declaration of merged with
\* every use replaced by the handle recorded for it.
C4_SelfConsistent ==
    MergeOk =>
        /\ \A i \in DOMAIN merged.exports :
              LET e == merged.exports[i].exportee
              IN /\ merged.exports[i].key \in DOMAIN mergee.exports
                 /\ e.h \in DOMAIN RewriteMap(e.kind)
                 /\ mergee.exports[merged.exports[i].key]
                        = Exportee(e.kind, RewriteMap(e.kind)[e.h])
        /\ \A x \in ReachFrom(mergee, InsertedExportees) :
              /\ Resident(mergee, x)
              /\ \A y \in RefsIn(mergee, x) : Resident(mergee, y)
              /\ x.h \in DOMAIN OriginMap(x.kind)
              /\ IsRewriteOf(BodyIn(mergee, x),
                             BodyIn(merged, Exportee(x.kind, OriginMap(x.kind)[x.h])))

\* a successful merge whose export reaches a second declaration through a rewritten use
C4_Witness ==
    /\ MergeOk
    /\ \E x \in InsertedExportees : RefsIn(mergee, x) \ {x} # {}

\* the first entry of merged.exports whose key mergee exported before the merge
KeyClash(i) == merged.exports[i].key \in DOMAIN pre.exports
DialectsCompatible == make_compatible(pre.dialect, merged.dialect).tag = "Ok"

\* C5: with compatible dialects, if a key of merged.exports is in mergee's export map
\* already, merge returns Err(DuplicateExportKey); the exportee under that key has not
\* been through the rewrite transform (it is still the value mergee had or the value
\* merged gave, and the transform's caches hold it only if an earlier entry named the
\* same declaration), and no later entry has been inserted.
C5_DuplicateKeyStops ==
    /\ (pc = "done" /\ DialectsCompatible /\ \E i \in DOMAIN merged.exports : KeyClash(i))
          => MergeDuplicateKey
    /\ MergeDuplicateKey =>
          LET k == merged.exports[export_idx].key
              e == merged.exports[export_idx].exportee
              cache == IF e.kind = "GlobalVar" THEN decl_rewrite.transformed_global_vars
                       ELSE decl_rewrite.transformed_funcs
          IN /\ KeyClash(export_idx)
             /\ \A j \in 1..(export_idx - 1) : ~KeyClash(j)
             /\ mergee.exports[k] \in {pre.exports[k], e}
             /\ e.h \in DOMAIN cache
                    => \E j \in 1..(export_idx - 1) : merged.exports[j].exportee = e
             /\ \A j \in (export_idx + 1)..Len(merged.exports) :
                    merged.exports[j].key \notin DOMAIN mergee.exports

\* merge fails on a key that is followed by another entry
C5_Witness ==
    /\ MergeDuplicateKey
    /\ export_idx < Len(merged.exports)
    /\ merged.exports[export_idx].exportee \in SrcReachable

\* C6: when merge fails with DuplicateExportKey, the entries inserted before the
\* failing key are still in mergee.exports (rewritten), the declarations mergee had and
\* the clones defined by the collector are still in its arenas, and mergee.dialect is
\* the dialect it had, not the resolved one.
C6_NoRollback ==
    MergeDuplicateKey =>
        /\ \A j \in 1..(export_idx - 1) :
              LET e == merged.exports[j].exportee
              IN /\ merged.exports[j].key \in DOMAIN mergee.exports
                 /\ mergee.exports[merged.exports[j].key]
                        = Exportee(e.kind, RewriteMap(e.kind)[e.h])
        /\ \A kind \in {"GlobalVar", "Func"} :
              /\ DOMAIN ArenaOf(mergee, kind)
                    = DOMAIN ArenaOf(pre, kind) \cup DOMAIN OriginMap(kind)
        /\ mergee.dialect = pre.dialect
        /\ mergee.dialect # resolved_dialect

\* merge fails on its second key, after one entry was inserted
C6_Witness ==
    /\ MergeDuplicateKey
    /\ export_idx = 2
    /\ mergee.exports[merged.exports[1].key] # merged.exports[1].exportee
    /\ DOMAIN origin.funcs # {}
    /\ resolved_dialect \notin {NoDialect, pre.dialect}

(***************************************************************************)
(* Claims about make_compatible, under SpecDialect.                        *)
(***************************************************************************)
SameModels ==
    /\ pre.dialect.memory_model = merged.dialect.memory_model
    /\ pre.dialect.addressing_model = merged.dialect.addressing_model
SameVersion ==
    /\ pre.dialect.version_major = merged.dialect.version_major
    /\ pre.dialect.version_minor = merged.dialect.version_minor

\* C7: when memory model and addressing model agree and the (major, minor) versions
\* differ, merge fails with VersionMissmatch, its mergee field the (major, minor) of
\* the destination and its merged field the (major, minor) of the source; a
\* difference in one component is enough.
C7_VersionMismatch ==
    (pc # "make_compatible" /\ SameModels /\ ~SameVersion) =>
        /\ pc = "done"
        /\ result = [tag |-> "Err",
                     err |-> [kind |-> "VersionMissmatch",
                              mergee |-> <<pre.dialect.version_major,
                                           pre.dialect.version_minor>>,
                              merged |-> <<merged.dialect.version_major,
                                           merged.dialect.version_minor>>]]
        /\ mergee = pre

\* merging a 1.5 module into a 1.3 module: VersionMissmatch{(1,3),(1,5)}
C7_Witness ==
    /\ pc = "done"
    /\ SameModels
    /\ result.tag = "Err"
    /\ result.err.kind = "VersionMissmatch"
    /\ result.err.mergee = <<1, 3>>
    /\ result.err.merged = <<1, 5>>

\* C8: when the dialects agree on memory model, addressing model and version, the
\* resolved dialect has every field of the first dialect except that capabilities and
\* extensions are the unions of both sets; resolving the result with the second
\* dialect again, or a dialect with itself, changes nothing; and the sets are the
\* same with the two dialects swapped.
C8_DialectUnion ==
    (pc # "make_compatible" /\ SameModels /\ SameVersion) =>
        LET a == pre.dialect
            b == merged.dialect
            r == resolved_dialect
        IN /\ pc = "visit_exports"
           /\ r.version_major = a.version_major
           /\ r.version_minor = a.version_minor
           /\ r.original_generator_magic = a.original_generator_magic
           /\ r.original_id_bound = a.original_id_bound
           /\ r.addressing_model = a.addressing_model
           /\ r.memory_model = a.memory_model
           /\ r.capabilities = a.capabilities \cup b.capabilities
           /\ r.extensions = a.extensions \cup b.extensions
           /\ DOMAIN r = DOMAIN a
           /\ make_compatible(r, b) = Ok(r)
           /\ make_compatible(a, a) = Ok(a)
           /\ make_compatible(b, a).tag = "Ok"
           /\ make_compatible(b, a).v.capabilities = r.capabilities
           /\ make_compatible(b, a).v.extensions = r.extensions

\* {X,Y} with {Y,Z} gives {X,Y,Z}, and the extensions of the second are new
C8_Witness ==
    /\ pc = "visit_exports"
    /\ pre.dialect.capabilities = {1, 2}
    /\ merged.dialect.capabilities = {2, 3}
    /\ resolved_dialect.capabilities = {1, 2, 3}
    /\ pre.dialect.extensions = {}
    /\ resolved_dialect.extensions = {1}

(***************************************************************************)
(* Claims about lowering, under SpecLower.  They are stated over consumed, *)
(* the instructions the parser has yielded: all but the last were taken    *)
(* without an error.                                                       *)
(***************************************************************************)
\* the category of an instruction in the order of the claim:
\* Capability < Extension < ExtInstImport < MemoryModel < EntryPoint < ExecutionMode
\*   < DebugStringAndSource < Other
TagOf(inst) ==
    CASE inst.opcode = "OpCapability" -> 1
      [] inst.opcode = "OpExtension" -> 2
      [] inst.opcode = "OpExtInstImport" -> 3
      [] inst.opcode = "OpMemoryModel" -> 4
      [] inst.opcode = "OpEntryPoint" -> 5
      [] inst.opcode = "OpExecutionMode" -> 6
      [] inst.opcode = "OpString" -> 7
      [] OTHER -> 8
Decreases(i) == i > 1 /\ TagOf(consumed[i]) < TagOf(consumed[i - 1])
MemoryModelInsts == {i \in DOMAIN consumed : consumed[i].opcode = "OpMemoryModel"}
\* what the decoding of instruction i itself reports, before its place is looked at
OwnError(i) ==
    LET inst == consumed[i]
    IN CASE inst.opcode = "OpExtension" /\ inst.ext = BadExtension -> "bad literal string"
         [] inst.opcode = "OpExtInstImport" /\ inst.name = BadLiteral -> "bad literal string"
         [] inst.opcode = "OpString" /\ inst.s = BadLiteral -> "bad literal string"
         [] inst.opcode = "OpMemoryModel" /\ (\E j \in MemoryModelInsts : j < i)
                -> "duplicate OpMemoryModel"
         [] inst.opcode \in {"OpExecutionMode", "OpDecorate"} /\ inst.id_operand
                -> "unsupported decoration with ID"
         [] OTHER -> "none"
OutOfOrderError(i) ==
    [tag |-> "Err",
     err |-> [kind |-> "out of order", in |-> consumed[i].opcode,
              must_precede |-> <<TagOf(consumed[i]), TagOf(consumed[i - 1])>>]]
LowerOk == lresult.tag = "Ok"

\* C9 as claimed: lowering fails with the out-of-order error naming both categories at
\* the first instruction whose tag is lower than the tag of the instruction before it,
\* and the tags of a successfully lowered stream never decrease.
C9_OutOfOrderAtFirstDecrease ==
    /\ \A i \in DOMAIN consumed :
          Decreases(i) => /\ i = Len(consumed)
                          /\ lresult = OutOfOrderError(i)
    /\ LowerOk => \A i \in DOMAIN consumed : ~Decreases(i)

\* C9 as amended: lowering fails at the first instruction whose tag is lower than the
\* tag of the instruction before it, with the out-of-order error naming both
\* categories unless the decoding of that instruction itself fails first (a second
\* OpMemoryModel, an annotation with an ID operand, an undecodable literal string);
\* the out-of-order error is returned for nothing else, and the tags of a
\* successfully lowered stream never decrease.
C9_FailsAtFirstDecrease ==
    /\ \A i \in DOMAIN consumed :
          Decreases(i) =>
              /\ i = Len(consumed)
              /\ lpc = "done"
              /\ lresult = IF OwnError(i) = "none" THEN OutOfOrderError(i)
                           ELSE [tag |-> "Err",
                                 err |-> [kind |-> OwnError(i), in |-> consumed[i].opcode]]
    /\ (lresult.tag = "Err" /\ lresult.err.kind = "out of order") =>
          /\ Decreases(Len(consumed))
          /\ lresult = OutOfOrderError(Len(consumed))
    /\ LowerOk => \A i \in DOMAIN consumed : ~Decreases(i)

\* OpExtension after OpMemoryModel: out of order, Extension must precede MemoryModel
C9_Witness ==
    /\ Len(consumed) = 2
    /\ consumed[1].opcode = "OpMemoryModel"
    /\ consumed[2].opcode = "OpExtension"
    /\ lresult = [tag |-> "Err",
                  err |-> [kind |-> "out of order", in |-> "OpExtension",
                           must_precede |-> <<2, 4>>]]

\* the stream apart from its OpMemoryModel instructions is well formed: the header is
\* accepted, no instruction is rejected for itself or for its place, and every ID an
\* annotation or an entry point targets is the result of a later instruction
Orderly ==
    /\ HeaderError = "none"
    /\ \A i \in DOMAIN consumed :
          /\ ~Decreases(i)
          /\ OwnError(i) \in {"none", "duplicate OpMemoryModel"}
NoOrphans ==
    \A i \in DOMAIN consumed :
        consumed[i].opcode \in {"OpEntryPoint", "OpExecutionMode", "OpDecorate"} =>
            \E j \in DOMAIN consumed :
                /\ j > i
                /\ consumed[j].opcode = "OpUndef"
                /\ consumed[j].result_id = consumed[i].target_id

\* C10: for an otherwise well-formed stream, with no OpMemoryModel lowering fails with
\* missing OpMemoryModel, and only once the stream is over; with exactly one it
\* succeeds and the dialect has that instruction's addressing and memory model; a
\* second one fails with duplicate OpMemoryModel where it occurs.
C10_ExactlyOneMemoryModel ==
    /\ (lpc = "done" /\ Orderly /\ MemoryModelInsts = {})
          => lresult = Err([kind |-> "missing OpMemoryModel"])
    /\ (lresult.tag = "Err" /\ lresult.err.kind = "missing OpMemoryModel")
          => /\ MemoryModelInsts = {}
             /\ \A i \in DOMAIN consumed : ~Decreases(i) /\ OwnError(i) = "none"
    /\ (lpc = "insts" /\ MemoryModelInsts = {}) => lresult = NoResult
    /\ (lpc = "done" /\ Orderly /\ NoOrphans /\ Cardinality(MemoryModelInsts) = 1)
          => LowerOk
    /\ LowerOk =>
          /\ Cardinality(MemoryModelInsts) = 1
          /\ \A i \in MemoryModelInsts :
                /\ lresult.v.dialect.addressing_model = consumed[i].addressing_model
                /\ lresult.v.dialect.memory_model = consumed[i].memory_model
    /\ Cardinality(MemoryModelInsts) >= 2 =>
          /\ Cardinality(MemoryModelInsts) = 2
          /\ Len(consumed) \in MemoryModelInsts
          /\ lresult = [tag |-> "Err",
                        err |-> [kind |-> "duplicate OpMemoryModel",
                                 in |-> "OpMemoryModel"]]

\* a stream with one OpMemoryModel, lowered to a dialect with its two operands
C10_Witness ==
    /\ LowerOk
    /\ Len(consumed) = MaxInsts
    /\ lresult.v.dialect.addressing_model = 1
    /\ lresult.v.dialect.memory_model = 3

(***************************************************************************)
(* Vocabulary of the claims about deferred attributes.                     *)
(***************************************************************************)
\* instruction i targets an ID with an attribute: an annotation or an entry point
Decorates(i) == consumed[i].opcode \in {"OpEntryPoint", "OpExecutionMode", "OpDecorate"}
\* the IDs the instructions of the stream define: their result IDs
ResultIds ==
    {consumed[j].result_id :
        j \in {k \in DOMAIN consumed :
                 consumed[k].opcode \in {"OpExtInstImport", "OpString", "OpUndef"}}} \ {0}
\* the target of instruction i is the result ID of a catch-all instruction after it
DefinedLater(i) ==
    \E j \in DOMAIN consumed :
        /\ j > i
        /\ consumed[j].opcode = "OpUndef"
        /\ consumed[j].result_id = consumed[i].target_id
\* the stream is over and passes every check but the one on deferred attributes
PassesOtherChecks ==
    /\ lpc = "done"
    /\ HeaderError = "none"
    /\ \A i \in DOMAIN consumed : ~Decreases(i) /\ OwnError(i) = "none"
    /\ Cardinality(MemoryModelInsts) = 1
IsNeverDefined == lresult.tag = "Err" /\ lresult.err.kind = "decorated IDs never defined"

\* C11 as claimed: a stream that passes all other checks and holds an annotation or
\* entry point targeting an ID no instruction of the stream defines fails, after the
\* whole stream, with decorated IDs never defined listing that ID; without any such
\* annotation it lowers successfully.
C11_OrphanIdsReported ==
    PassesOtherChecks =>
        LET orphans == {consumed[i].target_id :
                          i \in {k \in DOMAIN consumed : Decorates(k)}} \ ResultIds
        IN IF orphans # {}
           THEN IsNeverDefined /\ orphans \subseteq lresult.err.ids
           ELSE LowerOk

\* C11 as amended: a stream that passes all other checks and holds an annotation or
\* entry point whose target is not the result ID of a later catch-all instruction
\* fails, after the whole stream, with decorated IDs never defined listing exactly
\* the targets of such instructions; without any such instruction it lowers
\* successfully.  An ID defined before its annotation, or by OpString or
\* OpExtInstImport, counts as never defined.
C11_UnflushedIdsReported ==
    /\ PassesOtherChecks =>
          LET unflushed == {consumed[i].target_id :
                              i \in {k \in DOMAIN consumed :
                                       Decorates(k) /\ ~DefinedLater(k)}}
          IN IF unflushed # {}
             THEN lresult = [tag |-> "Err",
                             err |-> [kind |-> "decorated IDs never defined",
                                      ids |-> unflushed]]
             ELSE LowerOk
    /\ IsNeverDefined => PassesOtherChecks

\* OpDecorate of an ID nothing defines, beside a decorated ID that is defined later
C11_Witness ==
    /\ IsNeverDefined
    /\ \E i \in DOMAIN consumed :
          /\ consumed[i].opcode = "OpDecorate"
          /\ consumed[i].target_id \notin ResultIds
          /\ lresult.err.ids = {consumed[i].target_id}

\* every instruction the parser has yielded was taken without an error
AllAccepted ==
    /\ lpc \in {"insts", "done"}
    /\ HeaderError = "none"
    /\ \A i \in DOMAIN consumed : ~Decreases(i) /\ OwnError(i) = "none"

\* C12 as claimed: at the end of the stream every entry left in the deferred-attribute
\* table is for an ID that was decorated but that no instruction defines; so when
\* every targeted ID is the result ID of some instruction of the stream, and the
\* stream is otherwise well formed, lowering does not fail with decorated IDs never
\* defined.
C12_LeftoversNeverDefined ==
    /\ PassesOtherChecks =>
          \A id \in DOMAIN pending_attrs :
              /\ \E i \in DOMAIN consumed : Decorates(i) /\ consumed[i].target_id = id
              /\ id \notin ResultIds
    /\ (PassesOtherChecks
          /\ \A i \in DOMAIN consumed : Decorates(i) => consumed[i].target_id \in ResultIds)
          => ~IsNeverDefined

\* C12 as amended: as long as every instruction was accepted, the deferred-attribute
\* table holds an entry for exactly the IDs targeted by an annotation or entry point
\* that no catch-all instruction after it has as its result ID; so when every
\* targeted ID is the result ID of a later catch-all instruction, and the stream is
\* otherwise well formed, lowering does not fail with decorated IDs never defined.
C12_LeftoversNotDefinedLater ==
    /\ AllAccepted =>
          DOMAIN pending_attrs
              = {consumed[i].target_id :
                    i \in {k \in DOMAIN consumed : Decorates(k) /\ ~DefinedLater(k)}}
    /\ (PassesOtherChecks /\ \A i \in DOMAIN consumed : Decorates(i) => DefinedLater(i))
          => LowerOk /\ pending_attrs = EmptyMap

\* a stream that decorates an ID and defines it afterwards lowers successfully
C12_Witness ==
    /\ LowerOk
    /\ \E i \in DOMAIN consumed : Decorates(i) /\ DefinedLater(i)

(***************************************************************************)
(* Claims about the header, under SpecLower.                               *)
(***************************************************************************)
HeaderRejected ==
    /\ lpc = "done"
    /\ consumed = <<>>
    /\ lresult.tag = "Err"
    /\ lresult.err.kind \in {"version is not in expected (0.major.minor.0) form",
                             "unknown instruction schema", "ID bound 0"}

\* C13: the header is rejected as malformed when the most or the least significant
\* byte of the version word is not 0, when the instruction-schema word is not 0, or
\* when the ID bound is 0; otherwise lowering goes on and the dialect's version_major
\* and version_minor are the second and third most significant bytes of the version
\* word (0x00010500 gives 1 and 5).
C13_HeaderValidation ==
    LET v == header.version
        malformed == \/ v \div 16777216 # 0
                     \/ v % 256 # 0
                     \/ header.reserved_inst_schema # 0
                     \/ header.id_bound = 0
    IN lpc # "header" =>
          IF malformed THEN HeaderRejected
          ELSE /\ ~HeaderRejected
               /\ dialect.version_major = (v \div 65536) % 256
               /\ dialect.version_minor = (v \div 256) % 256
               /\ v = 66816 => dialect.version_major = 1 /\ dialect.version_minor = 5

\* the header with version word 0x00010500 was accepted
C13_Witness ==
    /\ lpc = "insts"
    /\ header.version = 66816
    /\ dialect.version_major = 1
    /\ dialect.version_minor = 5

(***************************************************************************)
(* Claim about the flush of deferred attributes, under SpecLower.          *)
(***************************************************************************)
\* the attribute record an annotation or entry-point instruction stands for
AttrRecord(inst) ==
    IF inst.opcode = "OpEntryPoint"
    THEN [kind |-> "SpvEntryPoint", params |-> <<"imm">>, interface_ids |-> <<>>]
    ELSE [kind |-> "SpvAnnotation", opcode |-> inst.opcode, params |-> <<"imm">>]
\* the records that target r before position j and that no catch-all instruction
\* with result ID r in between has taken
Unflushed(r, j) ==
    {AttrRecord(consumed[i]) :
        i \in {k \in 1..(j - 1) :
                 /\ Decorates(k)
                 /\ consumed[k].target_id = r
                 /\ ~\E m \in (k + 1)..(j - 1) :
                        consumed[m].opcode = "OpUndef" /\ consumed[m].result_id = r}}
\* the positions of the catch-all instructions, in order
CatchAlls ==
    SelectSeq([i \in 1..Len(consumed) |-> i], LAMBDA i : consumed[i].opcode = "OpUndef")
\* the step just taken decoded a catch-all instruction
DecodedCatchAll ==
    /\ Len(consumed') = Len(consumed) + 1
    /\ consumed'[Len(consumed')].opcode = "OpUndef"

\* C14: the record of a catch-all instruction with result ID r carries exactly the set
\* of the annotation and entry-point records that targeted r earlier in the stream and
\* were not flushed already (no attributes when there is none, or no result ID), and
\* the step that decodes it leaves the deferred-attribute table without an entry for
\* r and with the entries of all other IDs as they were; until then the entry of r
\* is that set.
C14_FlushOnDefinition ==
    /\ [](AllAccepted =>
            /\ Len(top_level) = Len(CatchAlls)
            /\ \A n \in DOMAIN top_level :
                  LET j == CatchAlls[n]
                      r == consumed[j].result_id
                  IN top_level[n].attrs
                        = IF r # 0 /\ Unflushed(r, j) # {} THEN <<Unflushed(r, j)>>
                          ELSE <<>>
            /\ \A r \in DOMAIN pending_attrs :
                  pending_attrs[r] = Unflushed(r, Len(consumed) + 1))
    /\ [][DecodedCatchAll =>
            LET r == consumed'[Len(consumed')].result_id
            IN /\ r \notin DOMAIN pending_attrs'
               /\ DOMAIN pending_attrs' = DOMAIN pending_attrs \ {r}
               /\ \A id \in DOMAIN pending_attrs' : pending_attrs'[id] = pending_attrs[id]]_vars

\* a catch-all instruction took two different records deferred for its result ID
C14_Witness ==
    \E n \in DOMAIN top_level :
        /\ top_level[n].attrs # <<>>
        /\ Cardinality(top_level[n].attrs[1]) = 2
        /\ top_level[n].output \notin DOMAIN pending_attrs

(***************************************************************************)
(* Claims about the drain phase of merge, under SpecMerge.                 *)
(***************************************************************************)
TransformedMap(kind) ==
    IF kind = "GlobalVar" THEN decl_rewrite.transformed_global_vars
    ELSE decl_rewrite.transformed_funcs
QueueOf(kind) ==
    IF kind = "GlobalVar" THEN decl_rewrite.global_var_queue ELSE decl_rewrite.func_queue
\* the declarations ever pushed onto a queue: a handle is pushed exactly when its
\* transform result is Unchanged
Enqueued ==
    {Exportee(kind, h) : <<kind, h>> \in
        {kh \in {"GlobalVar", "Func"} \X (1..(cx.next_global_var + cx.next_func)) :
            /\ kh[2] \in DOMAIN TransformedMap(kh[1])
            /\ TransformedMap(kh[1])[kh[2]].tag = "Unchanged"}}
RewrittenSet == {rewritten[i] : i \in DOMAIN rewritten}

\* C15: the drain phase ends only with both queues empty, and when merge returns Ok
\* every declaration that was ever enqueued has been rewritten in place: it was
\* popped and transformed, and its body in mergee holds no use the rewrite maps
\* would still change.
C15_DrainToFixedPoint ==
    /\ pc = "finish" =>
          decl_rewrite.global_var_queue = <<>> /\ decl_rewrite.func_queue = <<>>
    /\ MergeOk =>
          /\ decl_rewrite.global_var_queue = <<>>
          /\ decl_rewrite.func_queue = <<>>
          /\ \A x \in Enqueued :
                /\ x \in RewrittenSet
                /\ Resident(mergee, x)
                /\ \A j \in DOMAIN BodyIn(mergee, x) :
                      LET u == BodyIn(mergee, x)[j]
                      IN u.to \notin DOMAIN RewriteMap(KindOfUse(u))

\* a global variable was enqueued while a function was being rewritten, and rewritten
\* in a further round of the outer loop
C15_Witness ==
    /\ MergeOk
    /\ \E i, j \in DOMAIN rewritten :
          /\ i < j
          /\ rewritten[i].kind = "Func"
          /\ rewritten[j].kind = "GlobalVar"

\* body a with every use that has a rewrite-map entry replaced by the handle recorded
RewriteBody(a) ==
    [j \in DOMAIN a |->
        Use(a[j].kind,
            IF a[j].to \in DOMAIN RewriteMap(KindOfUse(a[j]))
            THEN RewriteMap(KindOfUse(a[j]))[a[j].to] ELSE a[j].to)]
\* the body declaration x of mergee has when the drain phase starts: the one mergee
\* had, or the clone of a declaration of merged
BodyBeforeDrain(x) ==
    IF x.h \in DOMAIN OriginMap(x.kind)
    THEN BodyIn(merged, Exportee(x.kind, OriginMap(x.kind)[x.h]))
    ELSE BodyIn(pre, x)

Caches ==
    [transformed_consts |-> decl_rewrite.transformed_consts,
     transformed_data_inst_forms |-> decl_rewrite.transformed_data_inst_forms,
     transformed_global_vars |-> decl_rewrite.transformed_global_vars,
     transformed_funcs |-> decl_rewrite.transformed_funcs]
\* the handles of a kind pushed so far, in order: those popped and rewritten, then
\* those still queued
PushedOfKind(kind) ==
    LET done == SelectSeq(rewritten, LAMBDA x : x.kind = kind)
    IN [i \in DOMAIN done |-> done[i].h] \o QueueOf(kind)
NoDuplicates(q) == \A i, j \in DOMAIN q : q[i] = q[j] => i = j

\* a step of the rewriter leaves every cached result as it is
CachedResultsKept ==
    pc \in {"register_export", "drain_global_vars", "drain_funcs"} =>
        \A c \in DOMAIN Caches :
            \A h \in DOMAIN Caches[c] :
                /\ h \in DOMAIN (Caches[c])'
                /\ (Caches[c])'[h] = Caches[c][h]

\* C17: within one merge a cached transform result is never computed again (an entry
\* of a cache, once there, keeps its value), a global variable or function handle is
\* pushed onto its queue at most once, exactly when its result is Unchanged, and a
\* declaration body is rewritten in place at most once.
C17_EachHandleOnce ==
    /\ [](pc \in {"register_export", "drain_global_vars", "drain_funcs", "finish", "done"}
            /\ result # Panicked =>
              \A kind \in {"GlobalVar", "Func"} :
                  /\ NoDuplicates(PushedOfKind(kind))
                  /\ {PushedOfKind(kind)[i] : i \in DOMAIN PushedOfKind(kind)}
                        = {x.h : x \in {y \in Enqueued : y.kind = kind}})
    /\ [](NoDuplicates(rewritten))
    /\ [][CachedResultsKept]_vars

\* a successful merge in which two uses named the same handle: an export and the
\* body of a declaration
C17_Witness ==
    /\ MergeOk
    /\ \E i \in DOMAIN merged.exports :
          LET e == merged.exports[i].exportee
              x == Exportee(e.kind, RewriteMap(e.kind)[e.h])
          IN \E y \in RewrittenSet : x \in RefsIn(mergee, y)

(***************************************************************************)
(* Claim about termination, under SpecMergeLive.                           *)
(***************************************************************************)
\* C18: merge terminates, also when the declarations of merged reference each other
\* in a cycle: every run reaches the point where merge has returned Ok or an error.
C18_MergeTerminates == <>(pc = "done" /\ result.tag \in {"Ok", "Err"})

\* merge has returned Ok for a module whose global variable and function reference
\* each other, both reachable from an export
C18_Witness ==
    /\ MergeOk
    /\ merged.global_vars[1] = <<Use("DataInstForm", 1)>>
    /\ merged.funcs[1] = <<Use("Const", 1)>>
    /\ merged.exports # <<>>

(***************************************************************************)
(* Claims about the failures of merge, under SpecMerge.                    *)
(***************************************************************************)
\* the dialect error the two dialects call for, memory model first
DialectErrorDue ==
    LET a == pre.dialect
        b == merged.dialect
    IN IF a.memory_model # b.memory_model THEN "MemoryModelMissmatch"
       ELSE IF a.addressing_model # b.addressing_model THEN "AddressingModelMissmatch"
       ELSE IF <<a.version_major, a.version_minor>> # <<b.version_major, b.version_minor>>
            THEN "VersionMissmatch"
       ELSE "none"

\* C19: when the dialects differ in memory model, addressing model or version, merge
\* returns the dialect error, the one for the memory model before the one for the
\* addressing model before the one for the version, whether or not an export key is
\* duplicated too, and it does so before anything else: mergee is as it was (arenas,
\* export map, dialect), nothing was defined in the context, nothing was collected.
C19_DialectErrorFirst ==
    /\ (pc # "make_compatible" /\ DialectErrorDue # "none") =>
          /\ pc = "done"
          /\ result.tag = "Err"
          /\ result.err.kind = DialectErrorDue
          /\ mergee = pre
          /\ origin = [global_vars |-> EmptyMap, funcs |-> EmptyMap]
          /\ cpycoll = NewCopyCollector
          /\ export_idx = 1
    /\ (result.tag = "Err" /\ result.err.kind # "DuplicateExportKey") =>
          /\ result.err.kind = DialectErrorDue
          /\ mergee = pre

\* the memory-model error, returned although the addressing model and the version
\* differ too and a key of merged is exported by mergee already
C19_Witness ==
    /\ result = [tag |-> "Err", err |-> [kind |-> "MemoryModelMissmatch"]]
    /\ pre.dialect.addressing_model # merged.dialect.addressing_model
    /\ pre.dialect.version_minor # merged.dialect.version_minor
    /\ \E i \in DOMAIN merged.exports : KeyClash(i)

\* C20: when merge fails with DuplicateExportKey, mergee.exports still maps the
\* conflicting key to what mergee exported under it before the merge, and so does
\* every other key mergee exported: no entry of merged overwrites one of mergee's own.
C20_PreexistingExportKept ==
    MergeDuplicateKey =>
        /\ mergee.exports[merged.exports[export_idx].key]
              = pre.exports[merged.exports[export_idx].key]
        /\ \A k \in DOMAIN pre.exports :
              k \in DOMAIN mergee.exports /\ mergee.exports[k] = pre.exports[k]

(***************************************************************************)
(* Claim about the resolution of ID operands, under SpecLower.             *)
(***************************************************************************)
\* instruction i is an OpExtInstImport or OpString that binds id
Binds(i, id) ==
    /\ consumed[i].opcode \in {"OpExtInstImport", "OpString"}
    /\ consumed[i].result_id = id
    /\ OwnError(i) = "none"
\* what id resolves to against the bindings among the first n instructions of the
\* stream, the last of them standing; an untracked-ID reference when there is none
ResolvedAgainst(n, id) ==
    LET B == {i \in 1..n : Binds(i, id)}
    IN IF B = {} THEN [kind |-> "SpvUntrackedId", v |-> id]
       ELSE LET last == CHOOSE i \in B : \A k \in B : k <= i
            IN IF consumed[last].opcode = "OpExtInstImport"
               THEN [kind |-> "SpvExtInstImport", v |-> consumed[last].name]
               ELSE [kind |-> "SpvDebugString", v |-> consumed[last].s]
\* the inputs of the record of the catch-all instruction at position j, its ID operand
\* resolved against the first n instructions
InputsAgainst(j, n) ==
    IF consumed[j].operand = 0 THEN <<[kind |-> "SpvImm"]>>
    ELSE <<ResolvedAgainst(n, consumed[j].operand)>>
\* two input lists hold the same kinds of inputs, with the same values
SameInputs(xs, ys) ==
    /\ Len(xs) = Len(ys)
    /\ \A k \in DOMAIN xs :
          /\ xs[k].kind = ys[k].kind
          /\ xs[k].kind # "SpvImm" => xs[k].v = ys[k].v
\* the record of the n-th catch-all instruction keeps its ID operand untracked
KeptUntracked(n) == top_level[n].inputs[1].kind = "SpvUntrackedId"

\* C21: the ID operand of a catch-all instruction is resolved against the IDs that
\* OpExtInstImport and OpString instructions before it have bound, an unbound ID being
\* kept as an untracked-ID reference, and the step that decodes it reports no error;
\* and when lowering succeeds this is the resolution against the whole stream: no
\* record keeps as untracked an ID that an OpExtInstImport or OpString anywhere in
\* the stream binds.
C21_UseTimeIsWholeStream ==
    /\ [](AllAccepted =>
            /\ Len(top_level) = Len(CatchAlls)
            /\ \A n \in DOMAIN top_level :
                  SameInputs(top_level[n].inputs,
                             InputsAgainst(CatchAlls[n], CatchAlls[n] - 1)))
    /\ [][DecodedCatchAll =>
            /\ lresult' = lresult
            /\ lpc' = "insts"
            /\ Len(top_level') = Len(top_level) + 1]_vars
    /\ [](LowerOk =>
            \A n \in DOMAIN top_level :
               /\ SameInputs(top_level[n].inputs,
                             InputsAgainst(CatchAlls[n], Len(consumed)))
               /\ KeptUntracked(n) =>
                     ~\E i \in DOMAIN consumed : Binds(i, top_level[n].inputs[1].v))

\* a stream lowered successfully in which a catch-all instruction kept its ID operand
\* untracked while an OpString before it had bound another ID
C21_Witness ==
    /\ LowerOk
    /\ \E n \in DOMAIN top_level :
          /\ KeptUntracked(n)
          /\ \E i \in 1..(CatchAlls[n] - 1) :
                /\ consumed[i].opcode = "OpString"
                /\ Binds(i, consumed[i].result_id)
                /\ consumed[i].result_id # top_level[n].inputs[1].v

====
